---------------------------- MODULE Spec2Model ----------------------------
(***************************************************************************)
(* Frame extraction / reassembly engine of the VW1871 BLE bridge tooling.  *)
(*                                                                         *)
(*   vw1871_frame_extractor.py : VW1871FrameExtractor                      *)
(*   vw1871_preprocessor.py    : VW1871Preprocessor                        *)
(*                                                                         *)
(* A text line is a sequence of character codes:                           *)
(*    0..9   '0'..'9'        10..15 'A'..'F'      16..21 'a'..'f'          *)
(*    22 '|'   23 '='   24 't'   25 'l'   26 'g'   27 'r'   28 'm'         *)
(*    29 '-'   30 'I'   31 'N'   32 'O'   33 ' '   34 newline              *)
(* Offsets are 0-based, as in the Python source; sequences are 1-based.    *)
(***************************************************************************)
EXTENDS Integers, Sequences, FiniteSets, TLC

VARIABLES
    processed_count,   \* VW1871FrameExtractor.processed_count
    extracted_frames,  \* VW1871FrameExtractor.extracted_frames
    pc,                \* position of process_stream's loop
    line,              \* the line process_stream handed to process_line
    hex_data,          \* process_line's local hex_data (NoneStr: not reached)
    rule,              \* branch taken by extract_wmbus_frames
    frames,            \* candidates of the selected rule, before validation
    starts,            \* offset in hex_data of each candidate
    out,               \* list returned by process_line
    calls,             \* number of lines read so far
    history,           \* observer: line and result of each finished call
    output,            \* lines process_stream wrote to output_stream
    th,                \* threads calling process_line on one extractor
    sw_pc,             \* _strip_wrapper harness: "strip", "again", "done"
    sw_in,             \* hex_data given to _strip_wrapper
    sw_core,           \* core it returned
    sw_reason,         \* reason it returned
    sw_core2,          \* core returned when sw_core is stripped again
    sw_reason2,        \* reason returned when sw_core is stripped again
    sw_frame,          \* what _locate_real_frame returned for sw_core
    pp_line,           \* line given to VW1871Preprocessor.process_line
    sw_conv,           \* what convert_to_wmbus_format returned
    sw_emit,           \* what VW1871Preprocessor.process_line returned
    pp_processed_count, \* VW1871Preprocessor.processed_count
    wd,                \* telegram_watchdog: its two threads, clock and streams
    wp,                \* VW1871Parser.extract_frames: data, cursor, frames
    cap                \* WMBusBluetoothCapture: flags, frames, stdout

xvars == <<processed_count, extracted_frames, pc, line, hex_data, rule,
           frames, starts, out, calls, history, output>>

swvars == <<sw_pc, sw_in, sw_core, sw_reason, sw_core2, sw_reason2, sw_frame>>

thvars == <<th>>

ppvars == <<pp_line, sw_conv, sw_emit, pp_processed_count>>

\* the variables of the other programs of the repository
auxvars == <<wp, cap>>

restvars == <<ppvars, wd, auxvars>>

vars == <<xvars, swvars, thvars, restvars>>

---------------------------------------------------------------------------
(* Characters and Python string primitives *)

IsHexChar(c) == c \in 0..21

\* str.upper() on one character of the alphabet
Upper(c) == IF c \in 16..21 THEN c - 6 ELSE c

\* str.lower() on one character of the alphabet
Lower(c) == IF c \in 10..15 THEN c + 6 ELSE c

UpperStr(s) == SubSeq([i \in 1..Len(s) |-> Upper(s[i])], 1, Len(s))

LowerStr(s) == SubSeq([i \in 1..Len(s) |-> Lower(s[i])], 1, Len(s))

Min(S) == CHOOSE x \in S : \A y \in S : x <= y

\* s[a:b] with Python's clamping of a and b (negative: from the end)
PySlice(s, a, b) ==
    LET n  == Len(s)
        lo == IF a < 0 THEN (IF n + a < 0 THEN 0 ELSE n + a)
                       ELSE (IF a > n THEN n ELSE a)
        hi == IF b < 0 THEN (IF n + b < 0 THEN 0 ELSE n + b)
                       ELSE (IF b > n THEN n ELSE b)
    IN  IF hi <= lo THEN << >> ELSE SubSeq(s, lo + 1, hi)

\* pat occurs in s at 0-based offset i
MatchAt(s, pat, i) ==
    /\ i >= 0
    /\ i + Len(pat) <= Len(s)
    /\ \A k \in 1..Len(pat) : s[i + k] = pat[k]

\* s.find(pat, from): the lowest offset >= from where pat occurs, or -1
Find(s, pat, from) ==
    LET hits == {i \in from..(Len(s) - Len(pat)) : MatchAt(s, pat, i)}
    IN  IF hits = {} THEN -1 ELSE Min(hits)

\* pat in s
Contains(s, pat) == \E i \in 0..(Len(s) - Len(pat)) : MatchAt(s, pat, i)

StartsWith(s, pat) == MatchAt(s, pat, 0)

EndsWith(s, pat) == MatchAt(s, pat, Len(s) - Len(pat))

---------------------------------------------------------------------------
(* Literals of the source *)

\* 'FBFBFBF0'
WRAP_START == <<15, 11, 15, 11, 15, 11, 15, 0>>

\* 'FEFE0E0F'
WRAP_END == <<15, 14, 15, 14, 0, 14, 0, 15>>

\* '25442D2C'
COMPACT == <<2, 5, 4, 4, 2, 13, 2, 12>>

\* '30442D2C'
FULL == <<3, 0, 4, 4, 2, 13, 2, 12>>

\* '703749741F16'
METER_ID == <<7, 0, 3, 7, 4, 9, 7, 4, 1, 15, 1, 6>>

\* 'FBFBFBF011012508E2DF916261B101', the header the documented 59/70-byte rule
\* deletes
DOC_HEADER == <<15, 11, 15, 11, 15, 11, 15, 0, 1, 1, 0, 1, 2, 5, 0, 8,
                14, 2, 13, 15, 9, 1, 6, 2, 6, 1, 11, 1, 0, 1>>

\* 'telegram=|'
TELEGRAM_PREFIX == <<24, 20, 25, 20, 26, 27, 16, 28, 23, 22>>

\* '2025-'
LOG_PREFIX == <<2, 0, 2, 5, 29>>

\* 'INFO'
INFO == <<30, 31, 15, 32>>

PIPE == 22

\* the newline character
NEWLINE == 34

\* hex characters in a 59-byte notification
LEN_59 == 118

\* hex characters in a 70-byte notification
LEN_70 == 140

\* hex characters in a 96-byte notification
LEN_96 == 192

\* hex characters in a 244-byte notification
LEN_244 == 488

\* digits of a compact frame
COMPACT_DIGITS == 76

\* digits of a full frame
FULL_DIGITS == 98

\* header characters the 96-byte rule deletes
HEADER_96 == 108

\* wrapper characters deleted at each end
WRAP_DIGITS == 8

\* minimum digits validate_frame accepts
MIN_FRAME_DIGITS == 20

---------------------------------------------------------------------------
(* VW1871FrameExtractor: pure functions *)

IsSpace(c) == c \in {33, 34}

\* str.strip()
Strip(s) ==
    LET n     == Len(s)
        lead  == Min({k \in 0..n : k = n \/ ~IsSpace(s[k + 1])})
        trail == Min({k \in 0..n : k = n \/ ~IsSpace(s[n - k])})
    IN  IF lead = n THEN << >> ELSE SubSeq(s, lead + 1, n - trail)

\* length of the run of hex characters of s that starts at offset i
HexRunLen(s, i) ==
    Min({j \in i..Len(s) : j = Len(s) \/ ~IsHexChar(s[j + 1])}) - i

\* offsets where  telegram=\|([0-9A-Fa-f]+)\|  matches
TelegramMatches(s) ==
    {i \in 0..(Len(s) - Len(TELEGRAM_PREFIX)) :
        /\ MatchAt(s, TELEGRAM_PREFIX, i)
        /\ LET g == i + Len(TELEGRAM_PREFIX)
               n == HexRunLen(s, g)
           IN  /\ n >= 1
               /\ g + n < Len(s)
               /\ s[g + n + 1] = PIPE}

\* group(1) of re.search(r'telegram=\|([0-9A-Fa-f]+)\|', s)
TelegramGroup(s) ==
    LET g == Min(TelegramMatches(s)) + Len(TELEGRAM_PREFIX)
    IN  PySlice(s, g, g + HexRunLen(s, g))

\* re.match(r'^[0-9A-Fa-f]+$', s)
IsHexLine(s) == Len(s) >= 1 /\ \A i \in 1..Len(s) : IsHexChar(s[i])

\* Python's None where a string is expected: no string of characters
NoneStr == <<-1>>

\* what a call leaves behind when an exception escapes it: no list of strings
Raised == <<NoneStr>>

\* VW1871FrameExtractor.extract_telegram_data
extract_telegram_data(l) ==
    IF TelegramMatches(l) # {} THEN UpperStr(TelegramGroup(l))
    ELSE IF IsHexLine(Strip(l)) THEN UpperStr(Strip(l))
    ELSE NoneStr

HasAnchor(s) == Contains(s, COMPACT) \/ Contains(s, FULL)

IsWrapped(s) == StartsWith(s, WRAP_START) /\ EndsWith(s, WRAP_END)

\* A candidate is recorded with the offset in the notification it was cut at:
\* [start |-> offset, frame |-> the string the code appends to frames].
Window(h, from, to) == [start |-> from, frame |-> PySlice(h, from, to)]

Frames(w) == SubSeq([i \in 1..Len(w) |-> w[i].frame], 1, Len(w))

Offsets(w) == SubSeq([i \in 1..Len(w) |-> w[i].start], 1, Len(w))

\* Faulty variant of windows_59_70_bytes: an unwrapped notification is taken
\* only when it starts with an anchor.
windows_59_70_bytes_StartsWith(h) ==
    IF Len(h) = LEN_59 \/ Len(h) = LEN_70
    THEN IF IsWrapped(h)
         THEN <<Window(h, WRAP_DIGITS, Len(h) - WRAP_DIGITS)>>
         ELSE IF StartsWith(h, COMPACT) \/ StartsWith(h, FULL)
              THEN <<Window(h, 0, Len(h))>> ELSE << >>
    ELSE << >>

windows_59_70_bytes(h) ==
    IF Len(h) = LEN_59
    THEN IF IsWrapped(h)
         THEN IF Len(PySlice(h, WRAP_DIGITS, 0 - WRAP_DIGITS)) >= COMPACT_DIGITS
              THEN <<Window(h, WRAP_DIGITS, Len(h) - WRAP_DIGITS)>> ELSE << >>
         ELSE IF HasAnchor(h) THEN <<Window(h, 0, Len(h))>> ELSE << >>
    ELSE IF Len(h) = LEN_70
    THEN IF IsWrapped(h)
         THEN IF Len(PySlice(h, WRAP_DIGITS, 0 - WRAP_DIGITS)) >= FULL_DIGITS
              THEN <<Window(h, WRAP_DIGITS, Len(h) - WRAP_DIGITS)>> ELSE << >>
         ELSE IF HasAnchor(h) THEN <<Window(h, 0, Len(h))>> ELSE << >>
    ELSE << >>

extract_frames_59_70_bytes(h) == Frames(windows_59_70_bytes(h))

windows_96_bytes(h) ==
    IF Len(h) = LEN_96 /\ Len(h) > HEADER_96 + WRAP_DIGITS
    THEN LET frame == PySlice(h, HEADER_96, 0 - WRAP_DIGITS)
         IN  IF Len(frame) >= COMPACT_DIGITS /\ HasAnchor(frame)
             THEN <<Window(h, HEADER_96, Len(h) - WRAP_DIGITS)>> ELSE << >>
    ELSE << >>

extract_frames_96_bytes(h) == Frames(windows_96_bytes(h))

\* Faulty variant of NextMatch: one window size for both anchors.
NextMatch_OneSize(data, pos) ==
    LET compact_pos == Find(data, COMPACT, pos)
        full_pos    == Find(data, FULL, pos)
        frame_type  == IF compact_pos # -1 /\ full_pos # -1
                       THEN (IF compact_pos < full_pos THEN "compact" ELSE "full")
                       ELSE IF compact_pos # -1 THEN "compact" ELSE "full"
    IN  [found      |-> compact_pos # -1 \/ full_pos # -1,
         next_pos   |-> IF frame_type = "compact" THEN compact_pos ELSE full_pos,
         frame_type |-> frame_type,
         size       |-> COMPACT_DIGITS]

\* Faulty variant of NextMatch: a compact anchor is taken whenever there is
\* one, also when a full anchor stands before it.
NextMatch_CompactFirst(data, pos) ==
    LET compact_pos == Find(data, COMPACT, pos)
        full_pos    == Find(data, FULL, pos)
        frame_type  == IF compact_pos # -1 THEN "compact" ELSE "full"
    IN  [found      |-> compact_pos # -1 \/ full_pos # -1,
         next_pos   |-> IF frame_type = "compact" THEN compact_pos ELSE full_pos,
         frame_type |-> frame_type,
         size       |-> IF frame_type = "compact" THEN COMPACT_DIGITS
                        ELSE FULL_DIGITS]

\* One pass of the while loop of extract_frames_244_bytes at cursor pos:
\* [found, next_pos, frame_type, size], where found says that a pattern was
\* found (the loop does not break at line 131).
NextMatch(data, pos) ==
    LET compact_pos == Find(data, COMPACT, pos)
        full_pos    == Find(data, FULL, pos)
        frame_type  == IF compact_pos # -1 /\ full_pos # -1
                       THEN (IF compact_pos < full_pos THEN "compact" ELSE "full")
                       ELSE IF compact_pos # -1 THEN "compact" ELSE "full"
    IN  [found      |-> compact_pos # -1 \/ full_pos # -1,
         next_pos   |-> IF frame_type = "compact" THEN compact_pos ELSE full_pos,
         frame_type |-> frame_type,
         size       |-> IF frame_type = "compact" THEN COMPACT_DIGITS
                        ELSE FULL_DIGITS]

\* Faulty variant of ScanFrom: the cursor moves past the anchor only, not
\* past the window.
RECURSIVE ScanFrom_PastAnchor(_, _)
ScanFrom_PastAnchor(data, pos) ==
    IF ~(pos < Len(data)) THEN << >>
    ELSE LET m == NextMatch(data, pos)
         IN  IF ~m.found THEN << >>
             ELSE IF m.next_pos + m.size <= Len(data)
             THEN <<Window(data, m.next_pos, m.next_pos + m.size)>>
                  \o ScanFrom_PastAnchor(data, m.next_pos + Len(COMPACT))
             ELSE << >>

\* Faulty variant of ScanFrom: the cursor moves one byte past the window.
RECURSIVE ScanFrom_SkipByte(_, _)
ScanFrom_SkipByte(data, pos) ==
    IF ~(pos < Len(data)) THEN << >>
    ELSE LET m == NextMatch(data, pos)
         IN  IF ~m.found THEN << >>
             ELSE IF m.next_pos + m.size <= Len(data)
             THEN <<Window(data, m.next_pos, m.next_pos + m.size)>>
                  \o ScanFrom_SkipByte(data, m.next_pos + m.size + 2)
             ELSE << >>

\* Faulty variant of ScanFrom: an anchor whose window does not fit is stepped
\* over and the scan goes on.
RECURSIVE ScanFrom_NoBreak(_, _)
ScanFrom_NoBreak(data, pos) ==
    IF ~(pos < Len(data)) THEN << >>
    ELSE LET m == NextMatch(data, pos)
         IN  IF ~m.found THEN << >>
             ELSE IF m.next_pos + m.size <= Len(data)
             THEN <<Window(data, m.next_pos, m.next_pos + m.size)>>
                  \o ScanFrom_NoBreak(data, m.next_pos + m.size)
             ELSE ScanFrom_NoBreak(data, m.next_pos + Len(COMPACT))

\* Faulty variant of ScanFrom: the cursor advances by the frame's bytes, not
\* by its hex digits.
RECURSIVE ScanFrom_ByBytes(_, _)
ScanFrom_ByBytes(data, pos) ==
    IF ~(pos < Len(data)) THEN << >>
    ELSE LET m == NextMatch(data, pos)
         IN  IF ~m.found THEN << >>
             ELSE IF m.next_pos + m.size <= Len(data)
             THEN <<Window(data, m.next_pos, m.next_pos + m.size)>>
                  \o ScanFrom_ByBytes(data, m.next_pos + (m.size \div 2))
             ELSE << >>

\* The while loop of extract_frames_244_bytes from cursor pos on.
RECURSIVE ScanFrom(_, _)
ScanFrom(data, pos) ==
    IF ~(pos < Len(data)) THEN << >>
    ELSE LET m == NextMatch(data, pos)
         IN  IF ~m.found THEN << >>
             ELSE IF m.next_pos + m.size <= Len(data)
             THEN <<Window(data, m.next_pos, m.next_pos + m.size)>>
                  \o ScanFrom(data, m.next_pos + m.size)
             ELSE << >>

windows_244_bytes(h) == ScanFrom(UpperStr(h), 0)

extract_frames_244_bytes(h) == Frames(windows_244_bytes(h))

\* Faulty variant of validate_frame: the anchor may stand anywhere.
validate_frame_AnchorAnywhere(frame) ==
    /\ ~(Len(frame) < MIN_FRAME_DIGITS)
    /\ HasAnchor(frame)
    /\ Contains(frame, METER_ID)

validate_frame(frame) ==
    /\ ~(Len(frame) < MIN_FRAME_DIGITS)
    /\ (StartsWith(frame, COMPACT) \/ StartsWith(frame, FULL))
    /\ Contains(frame, METER_ID)

\* Faulty variant of select_rule: the length of the wrapper-stripped core
\* is looked up.
select_rule_CoreLength(h) ==
    LET n == IF IsWrapped(h) THEN Len(h) - 2 * WRAP_DIGITS ELSE Len(h)
    IN  IF n = LEN_59 \/ n = LEN_70 THEN "single"
        ELSE IF n = LEN_96 THEN "offset_trim"
        ELSE IF n = LEN_244 THEN "multi"
        ELSE "fallback"

\* the if/elif chain of extract_wmbus_frames on data_len
select_rule(h) ==
    IF Len(h) = LEN_59 \/ Len(h) = LEN_70 THEN "single"
    ELSE IF Len(h) = LEN_96 THEN "offset_trim"
    ELSE IF Len(h) = LEN_244 THEN "multi"
    ELSE "fallback"

\* Faulty variant of rule_windows: a length without a rule yields nothing.
rule_windows_NoFallback(h) ==
    CASE select_rule(h) = "single"      -> windows_59_70_bytes(h)
      [] select_rule(h) = "offset_trim" -> windows_96_bytes(h)
      [] select_rule(h) = "multi"       -> windows_244_bytes(h)
      [] OTHER -> << >>

\* frames, with their offsets, before the validation loop of extract_wmbus_frames
rule_windows(h) ==
    CASE select_rule(h) = "single"      -> windows_59_70_bytes(h)
      [] select_rule(h) = "offset_trim" -> windows_96_bytes(h)
      [] select_rule(h) = "multi"       -> windows_244_bytes(h)
      [] OTHER -> IF HasAnchor(h) THEN windows_244_bytes(h) ELSE << >>

\* Faulty variant of valid_frames: the loop ends at the first rejection.
RECURSIVE valid_frames_StopAtReject(_)
valid_frames_StopAtReject(cands) ==
    IF cands = << >> \/ ~validate_frame(Head(cands)) THEN << >>
    ELSE <<Head(cands)>> \o valid_frames_StopAtReject(Tail(cands))

\* the validation loop of extract_wmbus_frames
valid_frames(cands) == SelectSeq(cands, validate_frame)

extract_wmbus_frames(h) == valid_frames(Frames(rule_windows(h)))

\* Faulty variant of SkipsLine: INFO lines are not skipped.
SkipsLine_NoInfo(l) ==
    \/ l = << >>
    \/ StartsWith(l, LOG_PREFIX)

\* process_line returns [] before it looks for hex data
SkipsLine(l) ==
    \/ l = << >>
    \/ StartsWith(l, LOG_PREFIX)
    \/ Contains(l, INFO)

---------------------------------------------------------------------------
(* The notifications the transport delivers *)

\* lines process_stream reads in one run of the stream
MaxCalls == 2

\* pieces laid out in one notification
MaxItems == 2

Zeros(n) == [i \in 1..n |-> 0]

\* a compact frame of the target meter: anchor, meter id, payload
CompactFrame == COMPACT \o METER_ID \o Zeros(COMPACT_DIGITS - 20)

\* a full frame of the target meter
FullFrame == FULL \o METER_ID \o Zeros(FULL_DIGITS - 20)

\* a compact frame of another meter
ForeignCompact == COMPACT \o Zeros(COMPACT_DIGITS - 8)

\* a full-anchor frame that carries the target id later than offset 8
ShiftedFull == FULL \o Zeros(10) \o METER_ID \o Zeros(FULL_DIGITS - 30)

\* a wrapped byte: what a wrapper looks like inside a payload
InnerWrapped == WRAP_START \o <<1, 2>> \o WRAP_END

\* a compact frame of the target meter whose payload holds the digits of an
\* anchor, at offset 60
AnchorInPayload == COMPACT \o METER_ID \o Zeros(40) \o COMPACT \o Zeros(8)

Piece(p) ==
    CASE p = "C"  -> CompactFrame
      [] p = "F"  -> FullFrame
      [] p = "Cx" -> ForeignCompact
      [] p = "Fs" -> ShiftedFull
      [] p = "A"  -> COMPACT
      [] p = "BC" -> FULL \o CompactFrame
      [] p = "Z"  -> Zeros(3)
      [] p = "Ca" -> AnchorInPayload
      [] p = "W"  -> InnerWrapped

FramePieces == {"C", "F", "Cx", "Fs"}

ScanPieces == FramePieces \cup {"A", "BC", "Z", "Ca"}

StripPieces == {"W", "C", "Z"}

ItemSeqs(pieces) == UNION {[1..n -> pieces] : n \in 0..MaxItems}

RECURSIVE Concat(_)
Concat(items) ==
    IF items = << >> THEN << >>
    ELSE Piece(Head(items)) \o Concat(Tail(items))

\* A notification of len hex characters: the wrapper delimiters asked for,
\* gap filler characters, the pieces, filler up to len (pieces that do not fit
\* are cut: a truncated capture).
Notification(len, wrap, gap, items) ==
    LET head == IF wrap \in {"both", "start"} THEN WRAP_START ELSE << >>
        tail == IF wrap \in {"both", "end"} THEN WRAP_END ELSE << >>
        room == len - Len(head) - Len(tail)
        body == Zeros(gap) \o Concat(items)
        fill == IF Len(body) >= room THEN SubSeq(body, 1, room)
                ELSE body \o Zeros(room - Len(body))
    IN  head \o fill \o tail

\* 59, 70, 96 and 244 bytes, 98 bytes (no rule of its own), 19 hex characters
NotificationLens == {LEN_59, LEN_70, LEN_96, LEN_244, 196, 19}

\* every rule, wrapped and not, one frame at the offsets the rules look at
RuleNotifications ==
    {Notification(len, wrap, gap, items) :
        len \in NotificationLens, wrap \in {"none", "both"},
        gap \in {0, 1, 100},
        items \in {<< >>} \cup {<<p>> : p \in FramePieces}}

\* the scanned lengths: several frames and bare anchors, also near the end of
\* the buffer and inside a wrapper
ScanNotifications ==
    {Notification(len, "none", gap, items) :
        len \in {LEN_244, 196}, gap \in {0, 320, 396},
        items \in ItemSeqs(ScanPieces)}
    \cup {Notification(LEN_244, "both", 0, items) : items \in ItemSeqs(FramePieces)}

\* 59- and 70-byte notifications with one delimiter only
SingleNotifications ==
    {Notification(len, wrap, gap, <<p>>) :
        len \in {LEN_59, LEN_70}, wrap \in {"start", "end"}, gap \in {0, 1},
        p \in {"C", "F"}}

\* 59- and 70-byte notifications laid out as the documented rule describes
\* them: the 30-character header, a frame, a 12-character footer
DocNotifications ==
    {DOC_HEADER \o f \o foot :
        f \in {CompactFrame, FullFrame},
        foot \in {Zeros(4) \o WRAP_END, Zeros(12)}}

Notifications ==
    RuleNotifications \cup ScanNotifications \cup SingleNotifications
        \cup DocNotifications

PipeLine(h) == TELEGRAM_PREFIX \o h \o <<PIPE>>

\* the wrapper alone, an anchor at the very end of a 244-byte and of an odd
\* 19-digit buffer, a frame cut short, telegram=|| without hex data
MalformedLines ==
    {WRAP_START \o WRAP_END,
     Zeros(LEN_244 - 8) \o COMPACT,
     Zeros(11) \o FULL,
     SubSeq(FullFrame, 1, 41),
     PipeLine(<< >>)}

\* lines process_line filters: the legacy form telegram=||hex||, a log line
\* and an INFO line that hold telegram=|hex|, hex with a blank inside
FilteredLines ==
    {TELEGRAM_PREFIX \o <<PIPE>> \o Notification(LEN_59, "both", 0, <<"C">>)
         \o <<PIPE, PIPE>>,
     LOG_PREFIX \o <<33>> \o PipeLine(Notification(LEN_59, "both", 0, <<"C">>)),
     INFO \o <<33>> \o PipeLine(Notification(LEN_59, "both", 0, <<"C">>)),
     CompactFrame \o <<33>> \o CompactFrame,
     <<33>> \o PipeLine(Notification(LEN_59, "both", 0, <<"C">>)) \o <<NEWLINE>>}

\* lines that are no bare upper-case hex: the telegram=|hex| form in lower
\* case, an empty line, a log line, a line with no hex data
OtherLines ==
    {PipeLine(LowerStr(Notification(len, "both", 0, items))) :
        len \in {LEN_59, LEN_244}, items \in {<<"C">>, <<"F", "F">>}}
    \cup {<< >>, <<34>>, LOG_PREFIX \o <<0, 1>>, INFO \o <<33>> \o COMPACT,
          <<PIPE, PIPE>> \o COMPACT}
    \cup MalformedLines \cup FilteredLines

Lines == Notifications \cup OtherLines

\* the lines of a short stream, read more than once
StreamLines ==
    {Notification(LEN_244, "none", 0, <<"C", "F">>),
     Notification(LEN_244, "both", 0, <<"F", "F">>),
     Notification(LEN_59, "both", 0, <<"C">>),
     Notification(LEN_70, "none", 0, <<"F">>),
     Notification(LEN_96, "both", 100, <<"C">>),
     Notification(196, "none", 100, <<"Cx", "C">>),
     PipeLine(LowerStr(Notification(LEN_59, "none", 0, <<"C">>))),
     << >>}

\* buffers given to _strip_wrapper: every delimiter combination around short
\* and long payloads, in upper and lower case, and the empty buffer
StripInputsUpper ==
    {Notification(len, wrap, 0, items) :
        len \in {16, 17, 18, 34, 124}, wrap \in {"none", "start", "end", "both"},
        items \in ItemSeqs(StripPieces)}
    \cup {<< >>, WRAP_START, WRAP_END}

StripInputs == StripInputsUpper \cup {LowerStr(x) : x \in StripInputsUpper}

---------------------------------------------------------------------------
(* VW1871FrameExtractor.process_stream *)

\* VW1871Preprocessor.process_line has not been called
PPIdle ==
    /\ pp_line = << >>
    /\ sw_conv = NoneStr
    /\ sw_emit = NoneStr
    /\ pp_processed_count = 0

\* telegram_watchdog is not running
WDOff == [main |-> "off"]

\* VW1871Parser.extract_frames has not been called
WPOff == [pc |-> "off"]

\* no WMBusBluetoothCapture has been constructed
CapOff == [pc |-> "off"]

AuxIdle == wp = WPOff /\ cap = CapOff

\* the other programs of the repository are not running
RestIdle == PPIdle /\ wd = WDOff /\ AuxIdle

Init ==
    /\ processed_count = 0
    /\ extracted_frames = 0
    /\ pc = "read"
    /\ line = << >>
    /\ hex_data = NoneStr
    /\ rule = "none"
    /\ frames = << >>
    /\ starts = << >>
    /\ out = << >>
    /\ calls = 0
    /\ history = << >>
    /\ output = << >>
    /\ th = << >>
    /\ sw_frame = NoneStr
    /\ sw_pc = "off"
    /\ sw_in = << >>
    /\ sw_core = << >>
    /\ sw_reason = "none"
    /\ sw_core2 = << >>
    /\ sw_reason2 = "none"
    /\ RestIdle

\* for line in input_stream
ReadLine(l) ==
    /\ pc = "read"
    /\ calls < MaxCalls
    /\ calls' = calls + 1
    /\ line' = l
    /\ pc' = "process_line"
    /\ hex_data' = NoneStr
    /\ rule' = "none"
    /\ frames' = << >>
    /\ starts' = << >>
    /\ out' = << >>
    /\ UNCHANGED <<processed_count, extracted_frames>>

\* Faulty variant of ProcessLine: once a notification has been counted, later
\* ones return nothing.
ProcessLine_FirstOnly ==
    /\ pc = "process_line"
    /\ \E l \in {Strip(line)} :
       \E h \in {IF SkipsLine(l) THEN NoneStr ELSE extract_telegram_data(l)} :
       \E w \in {IF h # NoneStr /\ h # << >> THEN rule_windows(h) ELSE << >>} :
       \E res \in {IF processed_count > 0 THEN << >>
                   ELSE valid_frames(Frames(w))} :
           /\ hex_data' = h
           /\ rule' = IF h # NoneStr /\ h # << >> THEN select_rule(h) ELSE "none"
           /\ frames' = Frames(w)
           /\ starts' = Offsets(w)
           /\ out' = res
           /\ processed_count' =
                 IF res # << >> THEN processed_count + 1 ELSE processed_count
           /\ extracted_frames' =
                 IF res # << >> THEN extracted_frames + Len(res)
                 ELSE extracted_frames
    /\ pc' = "write"
    /\ UNCHANGED <<line, calls>>

\* Faulty variant of ProcessLine: the hex data is decoded to bytes, which
\* raises on an odd number of digits.
ProcessLine_OddRaises ==
    /\ pc = "process_line"
    /\ \E l \in {Strip(line)} :
       \E h \in {IF SkipsLine(l) THEN NoneStr ELSE extract_telegram_data(l)} :
       \E w \in {IF h # NoneStr /\ h # << >> THEN rule_windows(h) ELSE << >>} :
       \E res \in {IF h # NoneStr /\ Len(h) % 2 = 1 THEN Raised
                   ELSE valid_frames(Frames(w))} :
           /\ hex_data' = h
           /\ rule' = IF h # NoneStr /\ h # << >> THEN select_rule(h) ELSE "none"
           /\ frames' = Frames(w)
           /\ starts' = Offsets(w)
           /\ out' = res
           /\ processed_count' =
                 IF res # << >> THEN processed_count + 1 ELSE processed_count
           /\ extracted_frames' =
                 IF res # << >> THEN extracted_frames + Len(res)
                 ELSE extracted_frames
    /\ pc' = "write"
    /\ UNCHANGED <<line, calls>>

\* Faulty variant of ProcessLine: every line with hex data is counted as a
\* processed notification.
ProcessLine_CountsCalls ==
    /\ pc = "process_line"
    /\ \E l \in {Strip(line)} :
       \E h \in {IF SkipsLine(l) THEN NoneStr ELSE extract_telegram_data(l)} :
       \E w \in {IF h # NoneStr /\ h # << >> THEN rule_windows(h) ELSE << >>} :
       \E res \in {valid_frames(Frames(w))} :
           /\ hex_data' = h
           /\ rule' = IF h # NoneStr /\ h # << >> THEN select_rule(h) ELSE "none"
           /\ frames' = Frames(w)
           /\ starts' = Offsets(w)
           /\ out' = res
           /\ processed_count' =
                 IF h # NoneStr THEN processed_count + 1 ELSE processed_count
           /\ extracted_frames' = extracted_frames + Len(res)
    /\ pc' = "write"
    /\ UNCHANGED <<line, calls>>

\* frames = self.process_line(line)
ProcessLine ==
    /\ pc = "process_line"
    /\ \E l \in {Strip(line)} :
       \E h \in {IF SkipsLine(l) THEN NoneStr ELSE extract_telegram_data(l)} :
       \E w \in {IF h # NoneStr /\ h # << >> THEN rule_windows(h) ELSE << >>} :
       \E res \in {valid_frames(Frames(w))} :
           /\ hex_data' = h
           /\ rule' = IF h # NoneStr /\ h # << >> THEN select_rule(h) ELSE "none"
           /\ frames' = Frames(w)
           /\ starts' = Offsets(w)
           /\ out' = res
           /\ processed_count' =
                 IF res # << >> THEN processed_count + 1 ELSE processed_count
           /\ extracted_frames' =
                 IF res # << >> THEN extracted_frames + Len(res)
                 ELSE extracted_frames
    /\ pc' = "write"
    /\ UNCHANGED <<line, calls>>

\* Faulty variant of OutputLine: the line is not terminated.
OutputLine_NoNewline(frame) == TELEGRAM_PREFIX \o frame \o <<PIPE>>

\* f"telegram=|{frame}|\n"
OutputLine(frame) == TELEGRAM_PREFIX \o frame \o <<PIPE, NEWLINE>>

\* the lines the write loop of process_stream appends for the list fs
RECURSIVE OutputLines(_)
OutputLines(fs) ==
    IF fs = << >> THEN << >>
    ELSE <<OutputLine(Head(fs))>> \o OutputLines(Tail(fs))

\* for frame in frames: output_stream.write(...)
WriteFrames ==
    /\ pc = "write"
    /\ pc' = "read"
    /\ output' = output \o OutputLines(out)
    /\ line' = << >>
    /\ hex_data' = NoneStr
    /\ rule' = "none"
    /\ frames' = << >>
    /\ starts' = << >>
    /\ out' = << >>
    /\ UNCHANGED <<processed_count, extracted_frames, calls>>

\* process_line applied to each line: the state when process_stream has read
\* its first line
InitLine ==
    /\ processed_count = 0
    /\ extracted_frames = 0
    /\ pc = "process_line"
    /\ line \in Lines
    /\ hex_data = NoneStr
    /\ rule = "none"
    /\ frames = << >>
    /\ starts = << >>
    /\ out = << >>
    /\ calls = 1
    /\ history = << >>
    /\ output = << >>
    /\ th = << >>
    /\ sw_frame = NoneStr
    /\ sw_pc = "off"
    /\ sw_in = << >>
    /\ sw_core = << >>
    /\ sw_reason = "none"
    /\ sw_core2 = << >>
    /\ sw_reason2 = "none"
    /\ RestIdle

Next ==
    \/ ProcessLine /\ UNCHANGED <<history, output, swvars, thvars, restvars>>
    \/ WriteFrames /\ UNCHANGED <<history, swvars, thvars, restvars>>

Spec == InitLine /\ [][Next]_vars

\* the whole stream, with an observer recording what each call returned
NextStream ==
    \/ \E l \in StreamLines : ReadLine(l) /\ UNCHANGED <<history, output, swvars, thvars, restvars>>
    \/ /\ ProcessLine
       /\ UNCHANGED <<output, swvars, thvars, restvars>>
       /\ history' = Append(history, [line |-> line, result |-> out',
                                      before |-> processed_count])
    \/ WriteFrames /\ UNCHANGED <<history, swvars, thvars, restvars>>

SpecStream == Init /\ [][NextStream]_vars

---------------------------------------------------------------------------
(* process_line called by several threads on one VW1871FrameExtractor *)

\* threads that share the extractor
NumThreads == 2

Threads == 1..NumThreads

\* the lines the threads are given
ThreadLines ==
    {Notification(LEN_244, "none", 0, <<"C", "F">>),
     Notification(LEN_70, "none", 0, <<"F">>),
     Notification(196, "none", 100, <<"Cx", "C">>),
     Notification(LEN_59, "both", 0, <<"C">>),
     << >>}

\* the variables of process_stream, which no thread touches
streamvars == <<pc, line, hex_data, rule, frames, starts, out, calls, history,
                output>>

\* what process_line returns for line l: lines 202-214, on locals only
process_line_result(l) ==
    LET h == IF SkipsLine(Strip(l)) THEN NoneStr
             ELSE extract_telegram_data(Strip(l))
    IN  IF h = NoneStr \/ h = << >> THEN << >> ELSE extract_wmbus_frames(h)

InitThreads ==
    /\ processed_count = 0
    /\ extracted_frames = 0
    /\ pc = "off"
    /\ line = << >>
    /\ hex_data = NoneStr
    /\ rule = "none"
    /\ frames = << >>
    /\ starts = << >>
    /\ out = << >>
    /\ calls = 0
    /\ history = << >>
    /\ output = << >>
    /\ th \in [Threads -> {[pc |-> "start", line |-> l, frames |-> << >>,
                             tmp |-> 0] : l \in ThreadLines}]
    /\ sw_frame = NoneStr
    /\ sw_pc = "off"
    /\ sw_in = << >>
    /\ sw_core = << >>
    /\ sw_reason = "none"
    /\ sw_core2 = << >>
    /\ sw_reason2 = "none"
    /\ RestIdle

\* lines 202-215: the thread computes its list and tests  if frames
T_Extract(t) ==
    /\ th[t].pc = "start"
    /\ \E res \in {process_line_result(th[t].line)} :
          th' = [th EXCEPT ![t].frames = res,
                           ![t].pc = IF res # << >> THEN "load_processed"
                                     ELSE "done"]
    /\ UNCHANGED <<processed_count, extracted_frames, streamvars, swvars, restvars>>

\* line 216, self.processed_count += 1: the attribute is read
T_LoadProcessed(t) ==
    /\ th[t].pc = "load_processed"
    /\ th' = [th EXCEPT ![t].tmp = processed_count,
                        ![t].pc = "store_processed"]
    /\ UNCHANGED <<processed_count, extracted_frames, streamvars, swvars, restvars>>

\* line 216: the sum is stored
T_StoreProcessed(t) ==
    /\ th[t].pc = "store_processed"
    /\ processed_count' = th[t].tmp + 1
    /\ th' = [th EXCEPT ![t].pc = "load_extracted"]
    /\ UNCHANGED <<extracted_frames, streamvars, swvars, restvars>>

\* line 217, self.extracted_frames += len(frames): the attribute is read
T_LoadExtracted(t) ==
    /\ th[t].pc = "load_extracted"
    /\ th' = [th EXCEPT ![t].tmp = extracted_frames,
                        ![t].pc = "store_extracted"]
    /\ UNCHANGED <<processed_count, extracted_frames, streamvars, swvars, restvars>>

\* line 217: the sum is stored, and the thread returns frames
T_StoreExtracted(t) ==
    /\ th[t].pc = "store_extracted"
    /\ extracted_frames' = th[t].tmp + Len(th[t].frames)
    /\ th' = [th EXCEPT ![t].pc = "done"]
    /\ UNCHANGED <<processed_count, streamvars, swvars, restvars>>

NextThreads ==
    \E t \in Threads :
        \/ T_Extract(t)
        \/ T_LoadProcessed(t)
        \/ T_StoreProcessed(t)
        \/ T_LoadExtracted(t)
        \/ T_StoreExtracted(t)

SpecThreads == InitThreads /\ [][NextThreads]_vars

---------------------------------------------------------------------------
(* VW1871Preprocessor._strip_wrapper *)

\* 'fbfbfbf0'
WRAP_START_LOWER == <<21, 17, 21, 17, 21, 17, 21, 0>>

\* 'fefe0e0f'
WRAP_END_LOWER == <<21, 20, 21, 20, 0, 20, 0, 21>>

\* Faulty variant of strip_wrapper: the end delimiter is not looked at.
strip_wrapper_NoEndCheck(h) ==
    LET hd == LowerStr(h)
    IN  IF StartsWith(hd, WRAP_START_LOWER) /\ Len(hd) > 16
        THEN [core |-> UpperStr(PySlice(hd, 8, 0 - 8)), reason |-> "wrapper-stripped"]
        ELSE [core |-> UpperStr(h), reason |-> "no-wrapper"]

\* Faulty variant of strip_wrapper: a buffer of exactly the two delimiters
\* counts as wrapped.
strip_wrapper_AtLeast16(h) ==
    LET hd == LowerStr(h)
    IN  IF /\ StartsWith(hd, WRAP_START_LOWER)
           /\ EndsWith(hd, WRAP_END_LOWER)
           /\ Len(hd) >= 16
        THEN [core |-> UpperStr(PySlice(hd, 8, 0 - 8)), reason |-> "wrapper-stripped"]
        ELSE [core |-> UpperStr(h), reason |-> "no-wrapper"]

\* VW1871Preprocessor._strip_wrapper: (core, reason)
strip_wrapper(h) ==
    LET hd == LowerStr(h)
    IN  IF /\ StartsWith(hd, WRAP_START_LOWER)
           /\ EndsWith(hd, WRAP_END_LOWER)
           /\ Len(hd) > 16
        THEN [core |-> UpperStr(PySlice(hd, 8, 0 - 8)), reason |-> "wrapper-stripped"]
        ELSE [core |-> UpperStr(h), reason |-> "no-wrapper"]

\* _strip_wrapper applied to each buffer, and again to the core it returned
InitStrip ==
    /\ processed_count = 0
    /\ extracted_frames = 0
    /\ pc = "off"
    /\ line = << >>
    /\ hex_data = NoneStr
    /\ rule = "none"
    /\ frames = << >>
    /\ starts = << >>
    /\ out = << >>
    /\ calls = 0
    /\ history = << >>
    /\ output = << >>
    /\ th = << >>
    /\ sw_frame = NoneStr
    /\ sw_pc = "strip"
    /\ sw_in \in StripInputs
    /\ sw_core = << >>
    /\ sw_reason = "none"
    /\ sw_core2 = << >>
    /\ sw_reason2 = "none"
    /\ RestIdle

StripOnce ==
    /\ sw_pc = "strip"
    /\ \E r \in {strip_wrapper(sw_in)} :
          /\ sw_core' = r.core
          /\ sw_reason' = r.reason
    /\ sw_pc' = "again"
    /\ UNCHANGED <<sw_in, sw_core2, sw_reason2, sw_frame, xvars, thvars, restvars>>

StripAgain ==
    /\ sw_pc = "again"
    /\ \E r \in {strip_wrapper(sw_core)} :
          /\ sw_core2' = r.core
          /\ sw_reason2' = r.reason
    /\ sw_pc' = "done"
    /\ UNCHANGED <<sw_in, sw_core, sw_reason, sw_frame, xvars, thvars, restvars>>

NextStrip == StripOnce \/ StripAgain

SpecStrip == InitStrip /\ [][NextStrip]_vars

---------------------------------------------------------------------------
(* VW1871Preprocessor._locate_real_frame *)

\* '30442d2c703749741f16'
LOCATE_PATTERN == <<3, 0, 4, 4, 2, 19, 2, 18, 7, 0, 3, 7, 4, 9, 7, 4, 1, 21, 1, 6>>

\* int(s, 16) for a string of hex digits
RECURSIVE IntHex(_)
IntHex(s) ==
    IF s = << >> THEN 0
    ELSE 16 * IntHex(SubSeq(s, 1, Len(s) - 1)) + Upper(s[Len(s)])

\* Faulty variant of locate_real_frame: the remaining length is not checked.
locate_real_frame_NoLengthCheck(core) ==
    LET idx == Find(LowerStr(core), LOCATE_PATTERN, 0)
    IN  IF idx = -1 THEN NoneStr
        ELSE LET L      == IntHex(PySlice(core, idx, idx + 2))
                 needed == (L + 1) * 2
             IN  UpperStr(PySlice(core, idx, idx + needed))

\* VW1871Preprocessor._locate_real_frame
locate_real_frame(core) ==
    LET idx == Find(LowerStr(core), LOCATE_PATTERN, 0)
    IN  IF idx = -1 THEN NoneStr
        ELSE LET L      == IntHex(PySlice(core, idx, idx + 2))
                 needed == (L + 1) * 2
             IN  IF Len(core) - idx < needed THEN NoneStr
                 ELSE UpperStr(PySlice(core, idx, idx + needed))

\* buffers given to convert_to_wmbus_format: full frames at the start, behind
\* other data, cut short, with exactly 49 and with 48.5 bytes left, in either
\* case, wrapped and not
ConvertInputsUpper ==
    {Notification(len, wrap, gap, items) :
        len \in {124, 34}, wrap \in {"none", "both"}, gap \in {0, 10, 11},
        items \in ItemSeqs({"F", "C", "Z", "Fs"})}

ConvertInputs == ConvertInputsUpper \cup {LowerStr(x) : x \in ConvertInputsUpper}

InitConvert ==
    /\ processed_count = 0
    /\ extracted_frames = 0
    /\ pc = "off"
    /\ line = << >>
    /\ hex_data = NoneStr
    /\ rule = "none"
    /\ frames = << >>
    /\ starts = << >>
    /\ out = << >>
    /\ calls = 0
    /\ history = << >>
    /\ output = << >>
    /\ th = << >>
    /\ sw_frame = NoneStr
    /\ sw_pc = "strip"
    /\ sw_in \in ConvertInputs
    /\ sw_core = << >>
    /\ sw_reason = "none"
    /\ sw_core2 = << >>
    /\ sw_reason2 = "none"
    /\ RestIdle

\* frame = self._locate_real_frame(core)
LocateFrame ==
    /\ sw_pc = "again"
    /\ \E f \in {locate_real_frame(sw_core)} : sw_frame' = f
    /\ sw_pc' = "located"
    /\ UNCHANGED <<sw_in, sw_core, sw_reason, sw_core2, sw_reason2, xvars, thvars, restvars>>

\* convert_to_wmbus_format: strip the wrapper, then locate the frame
NextConvert == StripOnce \/ LocateFrame

SpecConvert == InitConvert /\ [][NextConvert]_vars

---------------------------------------------------------------------------
(* VW1871Preprocessor.process_line *)

\* 'telegram='
TELEGRAM_EQ == <<24, 20, 25, 20, 26, 27, 16, 28, 23>>

\* VW1871Preprocessor.extract_telegram_data
pp_extract_telegram_data(l) ==
    IF TelegramMatches(l) # {} THEN UpperStr(TelegramGroup(l)) ELSE NoneStr

\* what convert_to_wmbus_format returns once core and frame are known
convert_result(core, frame) ==
    IF frame # NoneStr /\ frame # << >> THEN frame ELSE core

\* VW1871Preprocessor.convert_to_wmbus_format
convert_to_wmbus_format(h) ==
    convert_result(strip_wrapper(h).core,
                   locate_real_frame(strip_wrapper(h).core))

\* lines given to the preprocessor: telegram=|hex| around the buffers of
\* ConvertInputs, and lines that are no telegram
PreLines ==
    {PipeLine(x) : x \in ConvertInputs}
    \cup {<< >>, <<NEWLINE>>, CompactFrame, TELEGRAM_EQ, PipeLine(<< >>),
          TELEGRAM_EQ \o <<PIPE, PIPE>> \o CompactFrame \o <<PIPE, PIPE>>}

InitPreprocess ==
    /\ processed_count = 0
    /\ extracted_frames = 0
    /\ pc = "off"
    /\ line = << >>
    /\ hex_data = NoneStr
    /\ rule = "none"
    /\ frames = << >>
    /\ starts = << >>
    /\ out = << >>
    /\ calls = 0
    /\ history = << >>
    /\ output = << >>
    /\ th = << >>
    /\ sw_frame = NoneStr
    /\ sw_pc = "pp_start"
    /\ sw_in = << >>
    /\ sw_core = << >>
    /\ sw_reason = "none"
    /\ sw_core2 = << >>
    /\ sw_reason2 = "none"
    /\ pp_line \in PreLines
    /\ sw_conv = NoneStr
    /\ sw_emit = NoneStr
    /\ pp_processed_count = 0
    /\ wd = WDOff
    /\ AuxIdle

\* process_line up to the call of convert_to_wmbus_format: lines 124-134
PP_Extract ==
    /\ sw_pc = "pp_start"
    /\ \E l \in {Strip(pp_line)} :
       \E h \in {IF l = << >> \/ ~Contains(l, TELEGRAM_EQ) THEN NoneStr
                 ELSE pp_extract_telegram_data(l)} :
          IF h = NoneStr \/ h = << >>
          THEN sw_pc' = "returned" /\ sw_in' = sw_in
          ELSE sw_pc' = "strip" /\ sw_in' = h
    /\ UNCHANGED <<sw_core, sw_reason, sw_core2, sw_reason2, sw_frame,
                   ppvars, xvars, thvars, wd, auxvars>>

\* the end of convert_to_wmbus_format and of process_line: lines 115-120 and
\* 137-142
PP_Return ==
    /\ sw_pc = "located"
    /\ \E converted \in {convert_result(sw_core, sw_frame)} :
          /\ sw_conv' = converted
          /\ IF converted # << >>
             THEN /\ pp_processed_count' = pp_processed_count + 1
                  /\ sw_emit' = TELEGRAM_PREFIX \o converted \o <<PIPE>>
             ELSE /\ pp_processed_count' = pp_processed_count
                  /\ sw_emit' = NoneStr
    /\ sw_pc' = "returned"
    /\ UNCHANGED <<sw_in, sw_core, sw_reason, sw_core2, sw_reason2, sw_frame,
                   pp_line, xvars, thvars, wd, auxvars>>

NextPreprocess == PP_Extract \/ StripOnce \/ LocateFrame \/ PP_Return

SpecPreprocess == InitPreprocess /\ [][NextPreprocess]_vars

---------------------------------------------------------------------------
(* telegram_watchdog.py: main and its watchdog thread *)

\* seconds the clock runs
MaxTime == 4

\* lines that arrive on stdin
MaxWdLines == 2

\* values given to --timeout
WdTimeouts == {1, 2}

\* lines on stdin: a blank line, two frame lines
WdLines == {<<NEWLINE>>, <<1, 10, NEWLINE>>, <<2, 11, NEWLINE>>}

\* exit status of a process that is still running
RUNNING == -1

\* os._exit(124)
EXIT_FIRED == 124

\* main up to the start of the thread: lines 18-38.  now is time.time(),
\* seen the time the last line was read (an observer), read the lines taken
\* from stdin so far, stdout the lines written.
InitWatchdog ==
    /\ processed_count = 0
    /\ extracted_frames = 0
    /\ pc = "off"
    /\ line = << >>
    /\ hex_data = NoneStr
    /\ rule = "none"
    /\ frames = << >>
    /\ starts = << >>
    /\ out = << >>
    /\ calls = 0
    /\ history = << >>
    /\ output = << >>
    /\ th = << >>
    /\ sw_frame = NoneStr
    /\ sw_pc = "off"
    /\ sw_in = << >>
    /\ sw_core = << >>
    /\ sw_reason = "none"
    /\ sw_core2 = << >>
    /\ sw_reason2 = "none"
    /\ PPIdle
    /\ AuxIdle
    /\ \E t \in WdTimeouts : \E m \in {"exit", "signal"} :
          wd = [main |-> "read", dog |-> "loop", timeout |-> t, mode |-> m,
                now |-> 0, last |-> 0, seen |-> 0, wake |-> 0, stop |-> FALSE,
                cur |-> << >>, read |-> << >>, stdout |-> << >>,
                exit |-> RUNNING, signalled |-> FALSE]

WdRunning == wd.main # "off" /\ wd.exit = RUNNING

\* a second passes
WD_Tick ==
    /\ WdRunning
    /\ wd.now < MaxTime
    /\ wd' = [wd EXCEPT !.now = wd.now + 1]

\* for line in sys.stdin; if line.strip()
WD_ReadLine(l) ==
    /\ WdRunning
    /\ wd.main = "read"
    /\ Len(wd.read) < MaxWdLines
    /\ wd' = [wd EXCEPT !.cur = l, !.read = Append(wd.read, l),
                        !.seen = wd.now,
                        !.main = IF Strip(l) # << >> THEN "set_last"
                                 ELSE "write"]

\* with lock: last = time.time()
WD_SetLast ==
    /\ WdRunning
    /\ wd.main = "set_last"
    /\ wd' = [wd EXCEPT !.last = wd.now, !.main = "write"]

\* sys.stdout.write(line); sys.stdout.flush()
WD_Write ==
    /\ WdRunning
    /\ wd.main = "write"
    /\ wd' = [wd EXCEPT !.stdout = Append(wd.stdout, wd.cur), !.main = "read"]

\* stdin is at its end: the for loop is left
WD_Eof ==
    /\ WdRunning
    /\ wd.main = "read"
    /\ wd' = [wd EXCEPT !.main = "eof"]

\* stop.set()
WD_Stop ==
    /\ WdRunning
    /\ wd.main = "eof"
    /\ wd' = [wd EXCEPT !.stop = TRUE, !.main = "return"]

\* main returns and the process, with its daemon thread, ends
WD_Return ==
    /\ WdRunning
    /\ wd.main = "return"
    /\ wd' = [wd EXCEPT !.exit = 0, !.main = "done"]

\* while not stop.is_set(): time.sleep(1) begins
WD_CheckStop ==
    /\ WdRunning
    /\ wd.dog = "loop"
    /\ wd' = IF wd.stop THEN [wd EXCEPT !.dog = "stopped"]
             ELSE [wd EXCEPT !.dog = "sleep", !.wake = wd.now + 1]

\* time.time() - last > args.timeout
WdOverdue == wd.now - wd.last > wd.timeout

\* time.sleep(1) is over: lines 26-36
WD_Wake ==
    /\ WdRunning
    /\ wd.dog = "sleep"
    /\ wd.now >= wd.wake
    /\ wd' = IF WdOverdue
             THEN [wd EXCEPT !.dog = "fired", !.exit = EXIT_FIRED,
                             !.signalled = (wd.mode = "signal")]
             ELSE [wd EXCEPT !.dog = "loop"]

NextWatchdog ==
    \/ WD_Tick /\ UNCHANGED <<xvars, swvars, thvars, ppvars, auxvars>>
    \/ \E l \in WdLines : WD_ReadLine(l) /\ UNCHANGED <<xvars, swvars, thvars, ppvars, auxvars>>
    \/ WD_SetLast /\ UNCHANGED <<xvars, swvars, thvars, ppvars, auxvars>>
    \/ WD_Write /\ UNCHANGED <<xvars, swvars, thvars, ppvars, auxvars>>
    \/ WD_Eof /\ UNCHANGED <<xvars, swvars, thvars, ppvars, auxvars>>
    \/ WD_Stop /\ UNCHANGED <<xvars, swvars, thvars, ppvars, auxvars>>
    \/ WD_Return /\ UNCHANGED <<xvars, swvars, thvars, ppvars, auxvars>>
    \/ WD_CheckStop /\ UNCHANGED <<xvars, swvars, thvars, ppvars, auxvars>>
    \/ WD_Wake /\ UNCHANGED <<xvars, swvars, thvars, ppvars, auxvars>>

SpecWatchdog == InitWatchdog /\ [][NextWatchdog]_vars

---------------------------------------------------------------------------
(* vw1871_wrapper_parser.py: VW1871Parser.extract_frames *)

\* bytes.fromhex('FBFBFBF0')
start_marker == <<251, 251, 251, 240>>

\* bytes.fromhex('FEFE0E0F')
end_marker == <<254, 254, 14, 15>>

\* b.hex().upper(): two hex digits for each byte
HexOf(b) ==
    SubSeq([i \in 1..(2 * Len(b)) |->
               IF i % 2 = 1 THEN b[(i + 1) \div 2] \div 16
               ELSE b[i \div 2] % 16], 1, 2 * Len(b))

\* header_len chosen by analyze_frame
header_len(frame_data) ==
    IF Len(frame_data) < 2 THEN Len(frame_data)
    ELSE IF frame_data[1] = 17 /\ Len(frame_data) > 2 THEN 2
    ELSE IF Len(frame_data) > 3 THEN 3
    ELSE Min({2, Len(frame_data)})

\* the dictionary analyze_frame returns, with the raw_hex and offset that
\* extract_frames adds to it
analyze_frame(frame_data, incomplete, raw, offset) ==
    [length       |-> Len(frame_data),
     header_bytes |-> HexOf(PySlice(frame_data, 0, header_len(frame_data))),
     header_len   |-> header_len(frame_data),
     payload      |-> IF Len(frame_data) < 2 THEN << >>
                      ELSE HexOf(PySlice(frame_data, header_len(frame_data),
                                         Len(frame_data))),
     payload_len  |-> Len(frame_data) - header_len(frame_data),
     incomplete   |-> incomplete,
     raw_hex      |-> HexOf(raw),
     offset       |-> offset]

\* self.header_stats[header_hex] += 1, left alone for a frame of one byte
count_header(stats, frame_data) ==
    IF Len(frame_data) < 2 THEN stats
    ELSE LET h == HexOf(PySlice(frame_data, 0, header_len(frame_data)))
         IN  IF h \in DOMAIN stats THEN [stats EXCEPT ![h] = @ + 1]
             ELSE stats @@ (h :> 1)

\* self.sequence_analysis[header[0]].append(header[1])
note_sequence(seqs, frame_data) ==
    IF Len(frame_data) < 2 THEN seqs
    ELSE IF frame_data[1] \in DOMAIN seqs
         THEN [seqs EXCEPT ![frame_data[1]] = Append(@, frame_data[2])]
         ELSE seqs @@ (frame_data[1] :> <<frame_data[2]>>)

\* largest number of pieces a buffer is made of
MaxParts == 5

\* the pieces: start marker, end marker, the byte 0x11, the bytes 0x25 0xFE
WpPieces == {start_marker, end_marker, <<17>>, <<37, 254>>}

RECURSIVE WpBuffers(_)
WpBuffers(n) ==
    IF n = 0 THEN {<< >>}
    ELSE LET shorter == WpBuffers(n - 1)
         IN  shorter \cup {b \o q : b \in shorter, q \in WpPieces}

InitWrapper ==
    /\ processed_count = 0
    /\ extracted_frames = 0
    /\ pc = "off"
    /\ line = << >>
    /\ hex_data = NoneStr
    /\ rule = "none"
    /\ frames = << >>
    /\ starts = << >>
    /\ out = << >>
    /\ calls = 0
    /\ history = << >>
    /\ output = << >>
    /\ th = << >>
    /\ sw_frame = NoneStr
    /\ sw_pc = "off"
    /\ sw_in = << >>
    /\ sw_core = << >>
    /\ sw_reason = "none"
    /\ sw_core2 = << >>
    /\ sw_reason2 = "none"
    /\ PPIdle
    /\ wd = WDOff
    /\ cap = CapOff
    /\ \E d \in WpBuffers(MaxParts) :
          wp = [pc |-> "loop", data |-> d, pos |-> 0, frames |-> << >>,
                passes |-> 0, header_stats |-> << >>,
                sequence_analysis |-> << >>]

\* while pos < len(data) is false: return frames
WP_Return ==
    /\ wp.pc = "loop"
    /\ ~(wp.pos < Len(wp.data))
    /\ wp' = [wp EXCEPT !.pc = "done"]

\* start_pos == -1: break, return frames
WP_Break ==
    /\ wp.pc = "loop"
    /\ wp.pos < Len(wp.data)
    /\ Find(wp.data, start_marker, wp.pos) = -1
    /\ wp' = [wp EXCEPT !.pc = "done", !.passes = @ + 1]

\* Faulty variant of WP_Frame: a frame without content is reported too.
WP_Frame_KeepEmpty ==
    /\ wp.pc = "loop"
    /\ wp.pos < Len(wp.data)
    /\ \E start_pos \in {Find(wp.data, start_marker, wp.pos)} :
       \E found \in {Find(wp.data, end_marker, start_pos + 4)} :
       \E incomplete \in {found = -1} :
       \E end_pos \in {IF incomplete THEN Len(wp.data) ELSE found} :
       \E frame_data \in {PySlice(wp.data, start_pos + 4, end_pos)} :
       \E raw \in {PySlice(wp.data, start_pos,
                            end_pos + (IF incomplete THEN 0 ELSE 4))} :
          /\ start_pos # -1
          /\ wp' = [wp EXCEPT
                      !.frames = Append(@, analyze_frame(frame_data,
                                             incomplete, raw, start_pos)),
                      !.header_stats = count_header(@, frame_data),
                      !.sequence_analysis = note_sequence(@, frame_data),
                      !.pos = IF incomplete THEN Len(wp.data) ELSE end_pos + 4,
                      !.passes = @ + 1]

\* one pass of the loop that found a start marker: lines 53-79
WP_Frame ==
    /\ wp.pc = "loop"
    /\ wp.pos < Len(wp.data)
    /\ \E start_pos \in {Find(wp.data, start_marker, wp.pos)} :
       \E found \in {Find(wp.data, end_marker, start_pos + 4)} :
       \E incomplete \in {found = -1} :
       \E end_pos \in {IF incomplete THEN Len(wp.data) ELSE found} :
       \E frame_data \in {PySlice(wp.data, start_pos + 4, end_pos)} :
       \E raw \in {PySlice(wp.data, start_pos,
                            end_pos + (IF incomplete THEN 0 ELSE 4))} :
          /\ start_pos # -1
          /\ IF end_pos > start_pos + 4
             THEN wp' = [wp EXCEPT
                      !.frames = Append(@, analyze_frame(frame_data,
                                             incomplete, raw, start_pos)),
                      !.header_stats = count_header(@, frame_data),
                      !.sequence_analysis = note_sequence(@, frame_data),
                      !.pos = IF incomplete THEN Len(wp.data) ELSE end_pos + 4,
                      !.passes = @ + 1]
             ELSE wp' = [wp EXCEPT
                      !.pos = IF incomplete THEN Len(wp.data) ELSE end_pos + 4,
                      !.passes = @ + 1]

NextWrapper ==
    \/ WP_Return /\ UNCHANGED <<xvars, swvars, thvars, ppvars, wd, cap>>
    \/ WP_Break /\ UNCHANGED <<xvars, swvars, thvars, ppvars, wd, cap>>
    \/ WP_Frame /\ UNCHANGED <<xvars, swvars, thvars, ppvars, wd, cap>>

SpecWrapper == InitWrapper /\ [][NextWrapper]_vars

---------------------------------------------------------------------------
(* bluetooth_wmbus_capture.py: WMBusBluetoothCapture, notification_handler *)

\* hex_data.startswith(('44', '68', '2E', '1E', '23', '4D'))
CFieldPrefixes == {<<4, 4>>, <<6, 8>>, <<2, 14>>, <<1, 14>>, <<2, 3>>, <<4, 13>>}

\* the patterns '2D2C', '2C37', '2324', '11A5', '1592', '5B4', '601'
TelegramPatterns ==
    {<<2, 13, 2, 12>>, <<2, 12, 3, 7>>, <<2, 3, 2, 4>>, <<1, 1, 10, 5>>,
     <<1, 5, 9, 2>>, <<5, 11, 4>>, <<6, 0, 1>>}

is_potential_wmbus_telegram(h) ==
    IF Len(h) < 20 THEN FALSE
    ELSE IF StartsWith(h, WRAP_START) THEN TRUE
    ELSE IF \E pre \in CFieldPrefixes : StartsWith(h, pre) THEN TRUE
    ELSE \E pat \in TelegramPatterns : Contains(h, pat)

\* n bytes of value 0
ZeroBytes(n) == SubSeq([i \in 1..n |-> 0], 1, n)

\* the notifications: a wrapped one of 6 bytes and one of 10, 10 bytes of
\* zero, 10 bytes with C-field 0x44 first, 10 bytes holding 2D 2C, 10 bytes
\* whose hex holds 5B4 across a byte boundary
CapNotifications ==
    {start_marker \o <<17, 1>>,
     start_marker \o ZeroBytes(6),
     ZeroBytes(10),
     <<68>> \o ZeroBytes(9),
     <<0, 45, 44>> \o ZeroBytes(7),
     <<5, 180>> \o ZeroBytes(8)}

\* largest number of notifications delivered
MaxNotes == 3

\* largest number of _safe_print calls after the constructor
MaxTexts == 1

\* a line of text on stdout
TextLine == [kind |-> "text", hex |-> << >>]

\* the lines the constructor prints: 3, and one more in bridge mode
StartupLines(bridge_mode) ==
    IF bridge_mode THEN <<TextLine, TextLine, TextLine, TextLine>>
    ELSE <<TextLine, TextLine, TextLine>>

\* After __init__, with stdout open. sigpipe tells whether SIGPIPE has its
\* default action (line 33 succeeded) or is ignored, as Python starts with;
\* pipe is the state of stdout; log is an observer with one entry for each
\* notification delivered.
InitCapture ==
    /\ processed_count = 0
    /\ extracted_frames = 0
    /\ pc = "off"
    /\ line = << >>
    /\ hex_data = NoneStr
    /\ rule = "none"
    /\ frames = << >>
    /\ starts = << >>
    /\ out = << >>
    /\ calls = 0
    /\ history = << >>
    /\ output = << >>
    /\ th = << >>
    /\ sw_frame = NoneStr
    /\ sw_pc = "off"
    /\ sw_in = << >>
    /\ sw_core = << >>
    /\ sw_reason = "none"
    /\ sw_core2 = << >>
    /\ sw_reason2 = "none"
    /\ PPIdle
    /\ wd = WDOff
    /\ wp = WPOff
    /\ \E b \in BOOLEAN : \E a \in BOOLEAN : \E k \in {"default", "ignored"} :
          cap = [pc |-> "run", bridge_mode |-> b, print_all |-> a,
                 stdout_active |-> TRUE, captured_frames |-> << >>,
                 stdout |-> StartupLines(b), pipe |-> "open", sigpipe |-> k,
                 alive |-> TRUE, texts |-> 0, log |-> << >>]

CapRunning == cap.pc = "run" /\ cap.alive

\* the reader of stdout goes away, or stdout starts to fail otherwise
CAP_PipeFails ==
    /\ CapRunning
    /\ cap.pipe = "open"
    /\ \E how \in {"closed", "fault"} : cap' = [cap EXCEPT !.pipe = how]

\* what print(..., flush=True) does: "printed" on an open stdout; on a closed
\* pipe the process dies of SIGPIPE if the signal has its default action,
\* else BrokenPipeError is raised; on a failing stdout another exception
print_outcome(c) ==
    CASE c.pipe = "open" -> "printed"
      [] c.pipe = "closed" /\ c.sigpipe = "default" -> "killed"
      [] c.pipe = "closed" /\ c.sigpipe = "ignored" -> "broken"
      [] OTHER -> "error"

\* _safe_print: lines 72-83
CAP_SafePrint ==
    /\ CapRunning
    /\ cap.texts < MaxTexts
    /\ \E o \in {IF cap.stdout_active THEN print_outcome(cap) ELSE "quiet"} :
          cap' = [cap EXCEPT
                    !.texts = @ + 1,
                    !.stdout = IF o = "printed" THEN Append(@, TextLine) ELSE @,
                    !.stdout_active = IF o = "broken" THEN FALSE ELSE @,
                    !.alive = (o # "killed")]

\* Faulty variant of CAP_Notify: BrokenPipeError is caught but the flag stays.
CAP_Notify_NoLatch(data) ==
    /\ CapRunning
    /\ Len(cap.log) < MaxNotes
    /\ \E h \in {HexOf(data)} :
       \E is_potential \in {is_potential_wmbus_telegram(h)} :
       \E o \in {IF cap.bridge_mode /\ cap.stdout_active
                     /\ (cap.print_all \/ is_potential)
                  THEN print_outcome(cap) ELSE "quiet"} :
          cap' = [cap EXCEPT
                    !.captured_frames =
                        Append(@, [data_length |-> Len(data), raw_hex |-> h]),
                    !.stdout = IF o = "printed"
                               THEN Append(@, [kind |-> "hex", hex |-> h])
                               ELSE @,
                    !.alive = (o # "killed"),
                    !.log = Append(@, [hex |-> h, active |-> cap.stdout_active,
                                       outcome |-> o])]

\* notification_handler(chr_obj, data): lines 156-195
CAP_Notify(data) ==
    /\ CapRunning
    /\ Len(cap.log) < MaxNotes
    /\ \E h \in {HexOf(data)} :
       \E is_potential \in {is_potential_wmbus_telegram(h)} :
       \E o \in {IF cap.bridge_mode /\ cap.stdout_active
                     /\ (cap.print_all \/ is_potential)
                  THEN print_outcome(cap) ELSE "quiet"} :
          cap' = [cap EXCEPT
                    !.captured_frames =
                        Append(@, [data_length |-> Len(data), raw_hex |-> h]),
                    !.stdout = IF o = "printed"
                               THEN Append(@, [kind |-> "hex", hex |-> h])
                               ELSE @,
                    !.stdout_active = IF o = "broken" THEN FALSE ELSE @,
                    !.alive = (o # "killed"),
                    !.log = Append(@, [hex |-> h, active |-> cap.stdout_active,
                                       outcome |-> o])]

NextCapture ==
    \/ CAP_PipeFails /\ UNCHANGED <<xvars, swvars, thvars, ppvars, wd, wp>>
    \/ CAP_SafePrint /\ UNCHANGED <<xvars, swvars, thvars, ppvars, wd, wp>>
    \/ \E data \in CapNotifications :
          CAP_Notify(data) /\ UNCHANGED <<xvars, swvars, thvars, ppvars, wd, wp>>

SpecCapture == InitCapture /\ [][NextCapture]_vars

---------------------------------------------------------------------------
(* Properties of the extractor *)

\* the call of process_line has returned, and it reached extract_wmbus_frames
Extracted == pc = "write" /\ hex_data # NoneStr

\* value of the first byte of a hex string of at least two digits
FirstByte(f) == 16 * f[1] + f[2]

\* the rule scanned the buffer for anchors
Scanned == Extracted /\ rule \in {"multi", "fallback"}

\* C1: every telegram process_line returns is a whole number of bytes whose
\* first byte equals its length in bytes minus 1.
C1_LengthByteInvariant ==
    Extracted =>
        \A i \in 1..Len(out) :
            /\ Len(out[i]) % 2 = 0
            /\ FirstByte(out[i]) = (Len(out[i]) \div 2) - 1

\* C2: for a 244-byte notification the frames cut by extract_frames_244_bytes
\* are the windows at the recorded offsets, and each starts at or after the
\* end of the one before it.
C2_NonOverlap ==
    (Extracted /\ rule = "multi") =>
        /\ Len(hex_data) = 2 * 244
        /\ Len(starts) = Len(frames)
        /\ \A i \in 1..Len(frames) :
              frames[i] = PySlice(hex_data, starts[i], starts[i] + Len(frames[i]))
        /\ \A i \in 1..Len(frames) : \A j \in 1..Len(frames) :
              i < j => starts[j] >= starts[i] + Len(frames[i])

\* C2 witness: a 244-byte notification from which two frames were cut, the
\* second beginning on the offset where the first ends
C2_Witness ==
    /\ Extracted
    /\ rule = "multi"
    /\ Len(frames) >= 2
    /\ starts[2] = starts[1] + Len(frames[1])

C4_RuleByTotalLength ==
    Extracted =>
        rule = CASE Len(hex_data) = 2 * 59 \/ Len(hex_data) = 2 * 70 -> "single"
                 [] Len(hex_data) = 2 * 96 -> "offset_trim"
                 [] Len(hex_data) = 2 * 244 -> "multi"
                 [] OTHER -> "fallback"

\* C4 witness: a wrapped 96-byte notification, whose core is 88 bytes long
\* and holds an anchor, was given to the offset-trim rule
C4_Witness ==
    /\ Extracted
    /\ Len(hex_data) = 2 * 96
    /\ IsWrapped(hex_data)
    /\ HasAnchor(hex_data)
    /\ rule = "offset_trim"

\* C7: every frame the scan cuts begins with an anchor and has that anchor's
\* size: 76 digits behind 25442D2C, 98 digits behind 30442D2C.
C7_WindowSizeByAnchor ==
    Scanned =>
        \A i \in 1..Len(frames) :
            \/ StartsWith(frames[i], COMPACT) /\ Len(frames[i]) = 76
            \/ StartsWith(frames[i], FULL) /\ Len(frames[i]) = 98

\* C7 witness: one scan cut a compact and a full window
C7_Witness ==
    /\ Scanned
    /\ \E i \in 1..Len(frames) : StartsWith(frames[i], COMPACT)
    /\ \E i \in 1..Len(frames) : StartsWith(frames[i], FULL)

NoAnchorAt(h, q) == ~MatchAt(h, COMPACT, q) /\ ~MatchAt(h, FULL, q)

\* h holds two full frames of the target meter, the first at offset p and the
\* second directly behind it, and no anchor anywhere else outside them
BackToBackAt(h, p) ==
    /\ MatchAt(h, FULL \o METER_ID, p)
    /\ MatchAt(h, FULL \o METER_ID, p + 98)
    /\ p + 2 * 98 <= Len(h)
    /\ \A q \in 0..(p - 1) : NoAnchorAt(h, q)
    /\ \A q \in (p + 2 * 98)..Len(h) : NoAnchorAt(h, q)

\* an anchor whose whole window lies in h occurs at offset q
CompleteFrameAt(h, q) ==
    \/ MatchAt(h, COMPACT, q) /\ q + 76 <= Len(h)
    \/ MatchAt(h, FULL, q) /\ q + 98 <= Len(h)

\* C8: a 244-byte notification holding two full frames of the target meter
\* back to back yields exactly those two 49-byte telegrams; and whenever an
\* anchor with a complete window lies exactly where a cut window ends, the
\* next frame is cut from that very offset.
C8_BackToBack ==
    /\ (Extracted /\ Len(hex_data) = 2 * 244) =>
          \A p \in 0..(Len(hex_data) - 2 * 98) :
              BackToBackAt(hex_data, p) =>
                  /\ out = <<PySlice(hex_data, p, p + 98),
                             PySlice(hex_data, p + 98, p + 2 * 98)>>
                  /\ starts = <<p, p + 98>>
    /\ Scanned =>
          \A i \in 1..Len(starts) :
              CompleteFrameAt(hex_data, starts[i] + Len(frames[i])) =>
                  /\ i < Len(starts)
                  /\ starts[i + 1] = starts[i] + Len(frames[i])

\* C8 witness: such a wrapped 244-byte notification was processed and two
\* telegrams came back
C8_Witness ==
    /\ Extracted
    /\ Len(hex_data) = 2 * 244
    /\ BackToBackAt(hex_data, 8)
    /\ Len(out) = 2

\* offset of the scan cursor after i windows were cut
CursorAfter(i) == IF i = 0 THEN 0 ELSE starts[i] + Len(frames[i])

\* the anchor the scan finds from cursor c on does not fit into the buffer
TrailingIncomplete(c) ==
    /\ c < Len(hex_data)
    /\ NextMatch(hex_data, c).found
    /\ NextMatch(hex_data, c).next_pos + NextMatch(hex_data, c).size
           > Len(hex_data)

\* C9: when the anchor matched next does not have its whole window inside the
\* buffer, the scan ends there: the windows cut before it are the result,
\* nothing is cut at or after that anchor, and every window cut lies inside
\* the buffer.
C9_IncompleteTrailingFrame ==
    Scanned =>
        /\ \A i \in 0..Len(starts) :
              TrailingIncomplete(CursorAfter(i)) => Len(starts) = i
        /\ \A i \in 1..Len(starts) :
              /\ starts[i] + Len(frames[i]) <= Len(hex_data)
              /\ NextMatch(hex_data, CursorAfter(i - 1)).next_pos = starts[i]

\* C9 witness: a 244-byte notification: one window was cut, the next anchor
\* lies too close to the end, and an anchor whose window would fit follows it
C9_Witness ==
    /\ Extracted
    /\ rule = "multi"
    /\ Len(starts) = 1
    /\ TrailingIncomplete(CursorAfter(1))
    /\ \E q \in (NextMatch(hex_data, CursorAfter(1)).next_pos + 1)..Len(hex_data) :
          CompleteFrameAt(hex_data, q)

\* C10: for a 96-byte notification the result is characters [108:184] of the
\* notification when they are a compact frame of the target meter, and
\* nothing in every other case.
C10_OffsetTrim ==
    (Extracted /\ Len(hex_data) = 2 * 96) =>
        IF StartsWith(PySlice(hex_data, 108, 184), COMPACT \o METER_ID)
        THEN out = <<PySlice(hex_data, 108, 184)>>
        ELSE out = << >>

TargetFrame(f) ==
    \/ Len(f) = 76 /\ MatchAt(f, COMPACT \o METER_ID, 0)
    \/ Len(f) = 98 /\ MatchAt(f, FULL \o METER_ID, 0)

\* C12: a 59- or 70-byte notification made of the header
\* FBFBFBF011012508E2DF916261B101, a frame of the target meter and a
\* 12-character footer yields exactly that frame.
C12_DocumentedRule ==
    (/\ Extracted
     /\ Len(hex_data) \in {2 * 59, 2 * 70}
     /\ MatchAt(hex_data, DOC_HEADER, 0)
     /\ TargetFrame(PySlice(hex_data, 30, Len(hex_data) - 12)))
        => out = <<PySlice(hex_data, 30, Len(hex_data) - 12)>>

\* C13: for a notification of no ruled length the candidates are exactly the
\* windows the 244-byte scan cuts from the same data when an anchor occurs in
\* it, and there are none when no anchor occurs.
C13_FallbackScan ==
    (Extracted /\ Len(hex_data) \notin {2 * 59, 2 * 70, 2 * 96, 2 * 244}) =>
        frames = IF \E q \in 0..Len(hex_data) : ~NoAnchorAt(hex_data, q)
                 THEN extract_frames_244_bytes(hex_data)
                 ELSE << >>

\* C13 witness: a 98-byte notification was scanned and two windows were cut
C13_Witness ==
    /\ Extracted
    /\ Len(hex_data) = 2 * 98
    /\ Len(frames) = 2

\* C14: every telegram returned carries the meter identifier 703749741F16
\* directly behind its 4-byte anchor, at hex offset 8.
C14_MeterIdPosition ==
    Extracted => \A i \in 1..Len(out) : MatchAt(out[i], METER_ID, 8)

\* C15: every telegram returned has at least 20 hex digits and begins with
\* 25442D2C or 30442D2C.
C15_AnchorAndMinLength ==
    Extracted =>
        \A i \in 1..Len(out) :
            /\ Len(out[i]) >= 20
            /\ ~NoAnchorAt(out[i], 0)

\* C15 witness: the candidate of a 59/70- or 96-byte notification held an
\* anchor and the meter identifier, but not at its start, and was not returned
C15_Witness ==
    /\ Extracted
    /\ rule \in {"single", "offset_trim"}
    /\ Len(frames) = 1
    /\ NoAnchorAt(frames[1], 0)
    /\ \E q \in 1..Len(frames[1]) : MatchAt(frames[1], COMPACT \o METER_ID, q)
    /\ out = << >>

\* the three checks a candidate has to pass
Accepted(f) ==
    /\ Len(f) >= 20
    /\ ~NoAnchorAt(f, 0)
    /\ \E q \in 0..Len(f) : MatchAt(f, METER_ID, q)

\* the accepted candidates of fs, in the order of fs
RECURSIVE KeepAccepted(_)
KeepAccepted(fs) ==
    IF fs = << >> THEN << >>
    ELSE (IF Accepted(Head(fs)) THEN <<Head(fs)>> ELSE << >>)
             \o KeepAccepted(Tail(fs))

\* C16: the list returned is the candidates of the selected rule that pass
\* the checks, in candidate order; a rejected candidate is left out and the
\* candidates behind it are still returned.
C16_RejectedNeverEmitted ==
    Extracted => out = KeepAccepted(frames)

\* C16 witness: the first of two candidates was rejected and the second was
\* returned
C16_Witness ==
    /\ Extracted
    /\ Len(frames) = 2
    /\ ~Accepted(frames[1])
    /\ out = <<frames[2]>>

\* C17: whatever the line, process_line returns a list of hex strings and no
\* exception escapes it; the list is empty when the line holds no hex data or
\* the hex data holds no anchor.
C17_NeverThrows ==
    pc = "write" =>
        /\ out # Raised
        /\ \A i \in 1..Len(out) : IsHexLine(out[i])
        /\ hex_data = NoneStr => out = << >>
        /\ (/\ hex_data # NoneStr
            /\ \A q \in 0..Len(hex_data) : NoAnchorAt(hex_data, q))
               => out = << >>

\* C17 witness: hex data of an odd number of digits that ends with an anchor
\* was processed and the empty list came back
C17_Witness ==
    /\ Extracted
    /\ Len(hex_data) % 2 = 1
    /\ ~NoAnchorAt(hex_data, Len(hex_data) - 8)
    /\ out = << >>

\* the telegrams the calls recorded in hist returned, in call order and,
\* within a call, in the order of its list
RECURSIVE Telegrams(_)
Telegrams(hist) ==
    IF hist = << >> THEN << >>
    ELSE Head(hist).result \o Telegrams(Tail(hist))

\* C18: when process_stream is between two lines, what it has written is one
\* line  telegram=|HEX| plus newline  for each telegram returned so far and
\* nothing else, HEX being the telegram in upper-case hex digits, in the
\* order of the input lines and of each call's list.
C18_OutputFraming ==
    pc = "read" =>
        /\ Len(output) = Len(Telegrams(history))
        /\ \A n \in 1..Len(output) :
              /\ output[n] = <<24, 20, 25, 20, 26, 27, 16, 28, 23, 22>>
                                 \o Telegrams(history)[n] \o <<22, 34>>
              /\ \A k \in 1..Len(Telegrams(history)[n]) :
                    Telegrams(history)[n][k] \in 0..15

\* C18 witness: a line that gave two telegrams and a line that gave one were
\* read and three lines were written
C18_Witness ==
    /\ pc = "read"
    /\ Len(history) = 2
    /\ Len(history[1].result) = 2
    /\ Len(history[2].result) = 1
    /\ Len(output) = 3

\* number of notifications among the first n threads' calls that returned
\* telegrams
RECURSIVE CountedBy(_)
CountedBy(n) ==
    IF n = 0 THEN 0
    ELSE CountedBy(n - 1) + (IF th[n].frames # << >> THEN 1 ELSE 0)

\* number of telegrams the first n threads' calls returned
RECURSIVE ReturnedBy(_)
ReturnedBy(n) ==
    IF n = 0 THEN 0 ELSE ReturnedBy(n - 1) + Len(th[n].frames)

\* C19: when every thread's call of process_line has returned, each call
\* has returned what it returns alone and the counters are those of the same
\* calls run one after another, in any order: one per notification that gave
\* telegrams, and the number of telegrams.
C19_NoLostUpdate ==
    (\A t \in DOMAIN th : th[t].pc = "done") =>
        /\ \A t \in DOMAIN th : th[t].frames = process_line_result(th[t].line)
        /\ processed_count = CountedBy(Len(th))
        /\ extracted_frames = ReturnedBy(Len(th))

\* C24: each frame the scan cuts starts at the first anchor, compact or
\* full, at or after the cursor: no anchor lies between the cursor and the
\* frame's start, so the starts increase strictly and no frame starts inside
\* a window cut before it.
C24_GreedyScan ==
    Scanned =>
        \A i \in 1..Len(starts) :
            /\ starts[i] >= CursorAfter(i - 1)
            /\ ~NoAnchorAt(hex_data, starts[i])
            /\ \A q \in CursorAfter(i - 1)..(starts[i] - 1) :
                  NoAnchorAt(hex_data, q)
            /\ \A j \in 1..(i - 1) :
                  /\ starts[j] < starts[i]
                  /\ starts[j] + Len(frames[j]) <= starts[i]

\* C24 witness: a full frame was cut behind a compact one, and an anchor
\* inside the compact window did not start a frame
C24_Witness ==
    /\ Scanned
    /\ Len(starts) = 2
    /\ MatchAt(hex_data, COMPACT, starts[1])
    /\ MatchAt(hex_data, FULL, starts[2])
    /\ \E q \in (starts[1] + 1)..(starts[1] + 75) : ~NoAnchorAt(hex_data, q)

\* C25: every frame the scan cuts starts on a byte boundary of the
\* notification, at an even hex offset.
C25_ByteAlignment ==
    Scanned => \A i \in 1..Len(starts) : starts[i] % 2 = 0

\* C26: the scan ends with at most len(data) / 76 frames: every frame cut
\* moves the cursor on by at least 76 digits, and the cursor never passes
\* the end of the data.
C26_ScanTerminates ==
    Scanned =>
        /\ 76 * Len(frames) <= Len(hex_data)
        /\ CursorAfter(Len(starts)) <= Len(hex_data)
        /\ \A i \in 1..Len(starts) :
              /\ CursorAfter(i) >= CursorAfter(i - 1) + 76
              /\ starts[i] >= CursorAfter(i - 1)

\* C26 witness: two frames were cut and an anchor inside the first window
\* lay 60 digits behind its start
C26_Witness ==
    /\ Scanned
    /\ Len(starts) = 2
    /\ ~NoAnchorAt(hex_data, starts[1] + 60)
    /\ CursorAfter(2) <= Len(hex_data)

\* number of calls recorded in hist that returned at least one telegram
RECURSIVE Productive(_)
Productive(hist) ==
    IF hist = << >> THEN 0
    ELSE (IF Head(hist).result # << >> THEN 1 ELSE 0) + Productive(Tail(hist))

\* C27: after any sequence of calls extracted_frames is the number of
\* telegrams the calls returned and processed_count the number of calls
\* that returned at least one, so processed_count <= extracted_frames; a
\* call that returned nothing found the counters as the call before left
\* them.
C27_CounterConsistency ==
    /\ extracted_frames = Len(Telegrams(history))
    /\ processed_count = Productive(history)
    /\ processed_count <= extracted_frames
    /\ \A k \in 1..Len(history) :
          history[k].before = Productive(SubSeq(history, 1, k - 1))

\* C27 witness: two calls, one returned nothing and one returned two
\* telegrams
C27_Witness ==
    /\ Len(history) = 2
    /\ history[1].result = << >>
    /\ Len(history[2].result) = 2
    /\ processed_count = 1
    /\ extracted_frames = 2

\* l is telegram=|HEX| with HEX one or more hex digits
IsPipeForm(l) ==
    /\ Len(l) >= 12
    /\ SubSeq(l, 1, 10) = <<24, 20, 25, 20, 26, 27, 16, 28, 23, 22>>
    /\ l[Len(l)] = 22
    /\ \A k \in 11..(Len(l) - 1) : l[k] \in 0..21

\* l is made of hex digits only
IsBareHex(l) == Len(l) >= 1 /\ \A k \in 1..Len(l) : l[k] \in 0..21

\* l is empty, starts with 2025- or contains INFO
IsNoise(l) ==
    \/ l = << >>
    \/ (Len(l) >= 5 /\ SubSeq(l, 1, 5) = <<2, 0, 2, 5, 29>>)
    \/ \E q \in 0..Len(l) : MatchAt(l, <<30, 31, 15, 32>>, q)

---------------------------------------------------------------------------
(* Properties of _strip_wrapper *)

\* value of a hex digit, either case
HexVal(c) == IF c \in 16..21 THEN c - 6 ELSE c

\* the half-bytes a hex string denotes
HexVals(s) == [i \in 1..Len(s) |-> HexVal(s[i])]

\* s denotes a buffer of more than 8 bytes that begins with FB FB FB F0 and
\* ends with FE FE 0E 0F
HasWrapper(s) ==
    /\ Len(s) > 2 * 8
    /\ HexVals(SubSeq(s, 1, 8)) = <<15, 11, 15, 11, 15, 11, 15, 0>>
    /\ HexVals(SubSeq(s, Len(s) - 7, Len(s))) = <<15, 14, 15, 14, 0, 14, 0, 15>>

\* C5: a buffer with the wrapper comes back without its first 4 and last 4
\* bytes, classified wrapped; every other buffer comes back with the same
\* bytes, classified unwrapped.
C5_StripWrapper ==
    sw_pc \in {"again", "done"} =>
        IF HasWrapper(sw_in)
        THEN /\ HexVals(sw_core) = HexVals(SubSeq(sw_in, 9, Len(sw_in) - 8))
             /\ sw_reason = "wrapper-stripped"
        ELSE /\ HexVals(sw_core) = HexVals(sw_in)
             /\ sw_reason = "no-wrapper"

\* C5 witness: a wrapped 62-byte buffer came back as its 54-byte core
C5_Witness ==
    /\ sw_pc = "again"
    /\ Len(sw_in) = 2 * 62
    /\ sw_reason = "wrapper-stripped"
    /\ Len(sw_core) = 2 * 54

\* C6 as stated: stripping the core again returns the core, for every buffer.
C6_Idempotent ==
    sw_pc = "done" => sw_core2 = sw_core

\* C6 amended: a buffer without wrapper comes back with the same bytes, and
\* stripping the returned core again returns it unchanged unless that core
\* itself carries the wrapper, in which case the second strip removes 4 more
\* bytes at each end.
C6_IdempotentUnlessNested ==
    /\ (sw_pc \in {"again", "done"} /\ ~HasWrapper(sw_in)) =>
          HexVals(sw_core) = HexVals(sw_in)
    /\ sw_pc = "done" =>
          IF HasWrapper(sw_core)
          THEN /\ sw_core2 = SubSeq(sw_core, 9, Len(sw_core) - 8)
               /\ sw_reason2 = "wrapper-stripped"
          ELSE /\ sw_core2 = sw_core
               /\ sw_reason2 = "no-wrapper"

\* C6 witness: a wrapper was stripped, and stripping the core again changed
\* nothing
C6_Witness ==
    /\ sw_pc = "done"
    /\ sw_reason = "wrapper-stripped"
    /\ sw_reason2 = "no-wrapper"
    /\ sw_core2 = sw_core
    /\ Len(sw_core) > 0

---------------------------------------------------------------------------
(* Properties of _locate_real_frame *)

\* offsets of core where the bytes 30 44 2D 2C 70 37 49 74 1F 16 stand
PatternOffsets(core) ==
    {q \in 0..Len(core) :
        /\ q + 20 <= Len(core)
        /\ HexVals(SubSeq(core, q + 1, q + 20))
              = <<3, 0, 4, 4, 2, 13, 2, 12, 7, 0, 3, 7, 4, 9, 7, 4, 1, 15, 1, 6>>}

\* C20: _locate_real_frame returns None when the pattern does not occur in
\* the core or fewer than 49 bytes are left from its first occurrence, and
\* otherwise the 49 bytes from the first occurrence on, 49 being the value of
\* the byte there plus 1; a frame it returns has first byte = length - 1.
C20_LocateRealFrame ==
    sw_pc = "located" =>
        IF PatternOffsets(sw_core) = {}
        THEN sw_frame = NoneStr
        ELSE LET p == Min(PatternOffsets(sw_core))
             IN  IF Len(sw_core) - p < 2 * 49
                 THEN sw_frame = NoneStr
                 ELSE /\ sw_frame = SubSeq(sw_core, p + 1, p + 2 * 49)
                      /\ FirstByte(sw_frame) + 1 = 49
                      /\ FirstByte(sw_frame) = (Len(sw_frame) \div 2) - 1

\* C20 witness: a frame was returned that stood behind other data in the
\* core and had data behind it
C20_Witness ==
    /\ sw_pc = "located"
    /\ sw_frame # NoneStr
    /\ Len(sw_frame) = 2 * 49
    /\ PatternOffsets(sw_core) # {}
    /\ Min(PatternOffsets(sw_core)) > 0
    /\ Len(sw_core) > Min(PatternOffsets(sw_core)) + 2 * 49

---------------------------------------------------------------------------
(* Properties of VW1871Preprocessor.process_line *)

\* C21: when no inner frame was located, convert_to_wmbus_format returns the
\* hex data it was given, unmodified, and process_line returns it between
\* telegram=| and |.
C21_FallbackToOriginal ==
    (sw_pc = "returned" /\ sw_conv # NoneStr /\ sw_frame = NoneStr) =>
        /\ sw_conv = sw_in
        /\ sw_emit = <<24, 20, 25, 20, 26, 27, 16, 28, 23, 22>> \o sw_in \o <<22>>

---------------------------------------------------------------------------
(* Properties of telegram_watchdog *)

WdFired == wd.main # "off" /\ wd.exit = 124

\* C22: what the watchdog has written is what it has read, line for line and
\* in the same order, all of it whenever it waits for the next line and all
\* but the line in hand otherwise; and once stdin is at its end the watchdog
\* does not fire.
C22_PassThrough ==
    wd.main # "off" =>
        /\ Len(wd.stdout) <= Len(wd.read)
        /\ wd.stdout = SubSeq(wd.read, 1, Len(wd.stdout))
        /\ Len(wd.read) - Len(wd.stdout) <= 1
        /\ wd.main \in {"read", "eof", "return", "done"} => wd.stdout = wd.read
        /\ wd.main \in {"eof", "return", "done"} => wd.exit # 124

\* C22, first half only: what has been written is what has been read.
C22_WrittenIsRead ==
    wd.main # "off" =>
        /\ wd.stdout = SubSeq(wd.read, 1, Len(wd.stdout))
        /\ Len(wd.read) - Len(wd.stdout) <= 1
        /\ wd.main \in {"read", "eof", "return", "done"} => wd.stdout = wd.read

\* C23: the watchdog fires only when no line has been read for more than
\* timeout seconds, every line read resets the inactivity timer, and when it
\* fires the process ends with code 124, after SIGINT was sent in signal mode
\* and without it in exit mode.
C23_InactivityAction ==
    wd.main # "off" =>
        /\ WdFired => wd.now - wd.seen > wd.timeout
        /\ (wd.exit = -1 /\ wd.main = "write") => wd.last >= wd.seen
        /\ WdFired => (wd.signalled <=> wd.mode = "signal")
        /\ ~WdFired => ~wd.signalled

---------------------------------------------------------------------------
(* Properties of VW1871Parser.extract_frames *)

\* no end marker of buf starts at offset p or behind it
NoEndFrom(buf, p) ==
    \A q \in p..(Len(buf) - 4) : ~MatchAt(buf, end_marker, q)

\* number of bytes of the buffer a reported frame covers
RawLen(f) == f.length + (IF f.incomplete THEN 4 ELSE 8)

\* What holds of the frames extract_frames reports, whatever the buffer: the
\* cursor stays inside the buffer and every pass but the last moves it by 8
\* bytes or more; the frames come in increasing offset order and do not
\* overlap; each one starts at a start marker, has content, and its content
\* runs to the first end marker behind the start marker, or to the end of
\* the buffer if there is none, in which case it is marked incomplete and is
\* the last frame.
WrapperFraming ==
    /\ wp.pos <= Len(wp.data)
    /\ 8 * wp.passes <= wp.pos + 8
    /\ \A i \in 1..Len(wp.frames) :
          LET f == wp.frames[i]
              c == f.offset + 4
          IN  /\ MatchAt(wp.data, start_marker, f.offset)
              /\ f.length >= 1
              /\ c + f.length <= Len(wp.data)
              /\ f.raw_hex = HexOf(SubSeq(wp.data, f.offset + 1,
                                          f.offset + RawLen(f)))
              /\ \A q \in c..(c + f.length - 1) :
                    ~MatchAt(wp.data, end_marker, q)
              /\ IF f.incomplete
                 THEN i = Len(wp.frames) /\ c + f.length = Len(wp.data)
                 ELSE MatchAt(wp.data, end_marker, c + f.length)
              /\ \A j \in 1..(i - 1) :
                    wp.frames[j].offset + RawLen(wp.frames[j]) <= f.offset

\* the last frame reported is incomplete and ends where the buffer ends
LastIsIncomplete ==
    /\ wp.frames # << >>
    /\ LET f == wp.frames[Len(wp.frames)]
       IN  f.incomplete /\ f.offset + 4 + f.length = Len(wp.data)

\* C29 as stated: the frames are framed as WrapperFraming says, and a buffer
\* with a start marker that no end marker follows yields an incomplete last
\* frame that runs to the end of the buffer.
C29_WrapperFraming ==
    wp.pc # "off" =>
        /\ WrapperFraming
        /\ (wp.pc = "done" /\
             \E p \in 0..(Len(wp.data) - 4) :
                 MatchAt(wp.data, start_marker, p) /\ NoEndFrom(wp.data, p + 4))
            => LastIsIncomplete

\* C29 amended: the same, for a start marker that no end marker follows and
\* that has at least one byte behind it.
C29_WrapperFraming_Amended ==
    wp.pc # "off" =>
        /\ WrapperFraming
        /\ (wp.pc = "done" /\
             \E p \in 0..(Len(wp.data) - 5) :
                 MatchAt(wp.data, start_marker, p) /\ NoEndFrom(wp.data, p + 4))
            => LastIsIncomplete

\* C29 witness: a complete frame and an incomplete one behind it were
\* reported, and a start marker with an end marker right behind it was not
C29_Witness ==
    /\ wp.pc = "done"
    /\ Len(wp.frames) = 2
    /\ ~wp.frames[1].incomplete
    /\ wp.frames[2].incomplete
    /\ \E p \in 0..(Len(wp.data) - 8) :
          /\ MatchAt(wp.data, start_marker, p)
          /\ MatchAt(wp.data, end_marker, p + 4)

---------------------------------------------------------------------------
(* Properties of WMBusBluetoothCapture.notification_handler *)

\* the hex lines of a stdout, in order
RECURSIVE HexLines(_)
HexLines(lines) ==
    IF lines = << >> THEN << >>
    ELSE (IF Head(lines).kind = "hex" THEN <<Head(lines).hex>> ELSE << >>)
         \o HexLines(Tail(lines))

\* the hex of the notifications of a log that were printed, in order
RECURSIVE PrintedOf(_)
PrintedOf(log) ==
    IF log = << >> THEN << >>
    ELSE (IF Head(log).outcome = "printed" THEN <<Head(log).hex>> ELSE << >>)
         \o PrintedOf(Tail(log))

\* C30: a notification's hex is printed only if bridge_mode and
\* _stdout_active hold and print_all holds or the hex is a potential
\* telegram; after a BrokenPipeError in a print _stdout_active is false for
\* good and no later notification is printed; every notification, before
\* and after, is in captured_frames, in the order of arrival.
C30_StdoutLatch ==
    cap.pc # "off" =>
        /\ Len(cap.captured_frames) = Len(cap.log)
        /\ \A i \in 1..Len(cap.log) :
              /\ cap.captured_frames[i].raw_hex = cap.log[i].hex
              /\ cap.log[i].outcome = "printed" =>
                    /\ cap.bridge_mode
                    /\ cap.log[i].active
                    /\ cap.print_all
                         \/ is_potential_wmbus_telegram(cap.log[i].hex)
              /\ cap.log[i].outcome = "broken" =>
                    /\ ~cap.stdout_active
                    /\ \A j \in (i + 1)..Len(cap.log) :
                          /\ ~cap.log[j].active
                          /\ cap.log[j].outcome = "quiet"
        /\ HexLines(cap.stdout) = PrintedOf(cap.log)

\* C30 witness: in bridge mode a potential telegram was printed, the print
\* of a second one raised BrokenPipeError, and a third one was captured and
\* not printed
C30_Witness ==
    /\ cap.pc = "run"
    /\ cap.bridge_mode
    /\ Len(cap.log) = 3
    /\ cap.log[1].outcome = "printed"
    /\ cap.log[2].outcome = "broken"
    /\ is_potential_wmbus_telegram(cap.log[3].hex)
    /\ cap.log[3].outcome = "quiet"
    /\ Len(cap.captured_frames) = 3
    /\ Len(HexLines(cap.stdout)) = 1

===========================================================================
